---- MODULE Spec2Model ----
(***************************************************************************)
(* Model of scripts/examples/auto_guided_remediation.py: the guided        *)
(* remediation controller of osv-scanner's example script.                 *)
(*                                                                         *)
(* The script runs, for each entry of PATCH_STRATEGIES, the loop run_loop: *)
(* every round calls run_fix (git checkout of the manifest and lockfile,   *)
(* then `osv-scanner fix`, whose output is scraped for markers), compares  *)
(* the upgraded packages with the accepted ones, and runs `npm ci` and     *)
(* `npm run test` to accept, narrow or blocklist.  The module level keeps  *)
(* the strategy with the fewest remaining vulnerabilities and prints it.   *)
(*                                                                         *)
(* The external commands (git, osv-scanner, npm) are the environment: an   *)
(* action draws their exit status and output from bounded sets.  Three     *)
(* fixers are modelled: one that upgrades the top of a fixed ranking (the  *)
(* documented behaviour of --apply-top), one that answers each command     *)
(* line the same way every time but otherwise freely, and one that is      *)
(* bound only by the command line.                                         *)
(***************************************************************************)
EXTENDS Integers, Sequences, FiniteSets, TLC

(* ------------------------------ bounds --------------------------------- *)

\* Longest output of one `osv-scanner fix` invocation, in lines, where the
\* output is arbitrary text (run_fix on its own).
MaxLines == 3
\* Most upgrades one `osv-scanner fix` invocation reports within the loop.
MaxUpgrades == 2
\* A round starts only while n_patches <= MaxN ...
MaxN == 2
\* ... and while the blocklist holds at most MaxBlock entries.
MaxBlock == 2
\* Largest vulnerability count a marker reports.
MaxCount == 1
\* The call counters stop counting here ("CountCap or more").
CountCap == 2

\* Package names the tool may report.
Packages == {"a", "b"}

(* --------------------------- program constants ------------------------- *)

\* Python's None, for the Optional[int] counts.
None == -1

\* sys.maxsize, line 147 (2^63 - 1 on the script's platforms).  Only its
\* order with the reported counts matters: it stands above 0..MaxCount,
\* and a count that reaches sys.maxsize is written as SysMaxsize itself.
\* The value is the largest integer TLC represents.
SysMaxsize == 2147483647

\* PATCH_STRATEGIES, each strategy named by its argument.
PATCH_STRATEGIES == <<"in-place", "relock">>

\* best_strategy before any strategy won.
NoStrategy == "None"

\* Exit statuses of the external commands: zero, or not.
ExitCodes == {0, 1}

(* ------------------------- output of the fixer ------------------------- *)

\* One line of output: an UPGRADED-PACKAGE marker (v the package name), a
\* REMAINING-VULNS or UNFIXABLE-VULNS marker (v the count), or other text.
UpLines == [k : {"UPGRADED-PACKAGE"}, v : Packages]
RemLines == [k : {"REMAINING-VULNS"}, v : 0..MaxCount \cup {SysMaxsize}]
UnfLines == [k : {"UNFIXABLE-VULNS"}, v : 0..MaxCount]
Lines == UpLines \cup RemLines \cup UnfLines

SeqsUpTo(S, n) == UNION {[1..m -> S] : m \in 0..n}

\* Any text: the markers in any order and number.
Outputs == SeqsUpTo(Lines, MaxLines)

\* An Optional[int] count.
Counts == {None} \cup 0..MaxCount

\* The remaining count may also be as large as sys.maxsize.
RemCounts == Counts \cup {SysMaxsize}

\* The output of a run that upgraded the packages ups and reported the
\* counts rem and unf (None: not reported).
ToolOutput(ups, rem, unf) ==
    [i \in 1..Len(ups) |-> [k |-> "UPGRADED-PACKAGE", v |-> ups[i]]]
    \o (IF rem = None THEN <<>> ELSE <<[k |-> "REMAINING-VULNS", v |-> rem]>>)
    \o (IF unf = None THEN <<>> ELSE <<[k |-> "UNFIXABLE-VULNS", v |-> unf]>>)

Min(a, b) == IF a < b THEN a ELSE b

\* The upgrades `osv-scanner fix` may make for a command line: none of an
\* excluded package (--upgrade-config <package>:none), and at most top of
\* them (--apply-top), or any number without --apply-top.
ToolUpgrades(top, exclude) ==
    SeqsUpTo(Packages \ {exclude[i] : i \in 1..Len(exclude)},
             IF top = None THEN MaxUpgrades ELSE Min(top, MaxUpgrades))

\* What the tool may print for a command line.
ToolOutputs(top, exclude) ==
    {ToolOutput(ups, rem, unf) :
        ups \in ToolUpgrades(top, exclude), rem \in RemCounts,
        unf \in Counts}

\* `x in l` for a list.
InList(x, l) == \E i \in 1..Len(l) : l[i] = x

\* A list that names no package twice.
NoRepeat(l) == \A i, j \in 1..Len(l) : i # j => l[i] # l[j]

\* The rankings a fixer may have: some of the packages, each once.
Rankings ==
    {r \in SeqsUpTo(Packages, Cardinality(Packages)) : NoRepeat(r)}

\* The upgrades of a fixer that ranks its upgrades as r: the top `top` of
\* those not excluded, or all of them without --apply-top.
TopRanked(r, top, exclude) ==
    LET eligible == SelectSeq(r, LAMBDA p : ~InList(p, exclude))
    IN  IF top = None THEN eligible
        ELSE SubSeq(eligible, 1, Min(top, Len(eligible)))

(* ------------------------------- state --------------------------------- *)

VARIABLES
    pc,                 \* position of the script
    sidx,               \* index in PATCH_STRATEGIES of the for loop
    applied_changes, blocklist_entries, n_patches,      \* run_loop's locals
    remaining_vulns, total_unfixable,
    candidate_changes, unfixable_vulns,
    install_failed, tests_failed,
    cmd,                \* the command line run_fix built last
    workspace,          \* upgrades present in package.json/package-lock.json
    best_strategy, best_changes, best_blocklist,        \* module level
    best_remaining, best_unfixable,
    printed,            \* the final report, once printed
    env,                \* the fixer and the validator of this run_loop
    fx,                 \* run_fix on its own: its input and its result
    \* history, read by the properties only
    last_call,          \* the external command that ran last
    rounds, validations,\* fixer and validator calls of this run_loop
    results             \* what each run_loop returned, in order

vars == <<pc, sidx, applied_changes, blocklist_entries, n_patches,
          remaining_vulns, total_unfixable, candidate_changes,
          unfixable_vulns, install_failed, tests_failed, cmd, workspace,
          best_strategy, best_changes, best_blocklist, best_remaining,
          best_unfixable, printed, env, fx, last_call, rounds,
          validations, results>>

loopVars == <<applied_changes, blocklist_entries, n_patches,
              remaining_vulns, total_unfixable, candidate_changes,
              unfixable_vulns, install_failed, tests_failed>>

bestVars == <<best_strategy, best_changes, best_blocklist, best_remaining,
              best_unfixable>>

NoCmd == [top |-> None, exclude |-> <<>>, strategy |-> NoStrategy]
NoReport == [done |-> FALSE]
NoFx == [started |-> TRUE, rc |-> 0, stdout |-> <<>>, ret |-> <<>>]

\* The environment of one run_loop: how the fixer behaves (mode), the
\* ranking it showed (ranked), and what it and the validator answered so
\* far (table).
NewEnv(mode) ==
    [mode |-> mode, ranking |-> {}, answers |-> {}, verdicts |-> {}]

InitScript(mode) ==
    /\ pc = "start"
    /\ sidx = 1
    /\ applied_changes = <<>>
    /\ blocklist_entries = <<>>
    /\ n_patches = 0
    /\ remaining_vulns = None
    /\ total_unfixable = None
    /\ candidate_changes = <<>>
    /\ unfixable_vulns = None
    /\ install_failed = 0
    /\ tests_failed = 0
    /\ cmd = NoCmd
    /\ workspace = <<>>
    /\ best_strategy = NoStrategy
    /\ best_changes = <<>>
    /\ best_blocklist = <<>>
    /\ best_remaining = SysMaxsize
    /\ best_unfixable = None
    /\ printed = NoReport
    /\ env = NewEnv(mode)
    /\ last_call = "none"
    /\ rounds = 0
    /\ validations = 0
    /\ results = <<>>

Init ==
    /\ InitScript("ranked")
    /\ fx = NoFx

(* ------------------------------ helpers -------------------------------- *)

\* Python truthiness of a list and of an Optional[int].
TruthyList(l) == l # <<>>
TruthyInt(x) == x # None /\ x # 0

Bump(c) == IF c < CountCap THEN c + 1 ELSE c

PkgSet(l) == {l[i] : i \in 1..Len(l)}

(* ------------------------------- run_fix ------------------------------- *)

\* Lines 46-61 without lines 60-61.
BuildCmdWithoutExclusions(n, blocklist, strategy) ==
    [top |-> IF n # 0 THEN n ELSE None,
     exclude |-> <<>>,
     strategy |-> strategy]

\* Lines 46-61: --apply-top only when n_patches != 0, and one
\* --upgrade-config <package>:none per blocklist entry, in order.
BuildCmd(n, blocklist, strategy) ==
    [top |-> IF n # 0 THEN n ELSE None,
     exclude |-> blocklist,
     strategy |-> strategy]

\* Lines 63-66 dropping what a failed tool printed.
CapturedOutputOfSuccess(rc, stdout) ==
    IF rc = 0 THEN stdout
    ELSE <<>>

\* Lines 63-66, subprocess.check_output(cmd, text=True): stdout is captured
\* and stderr is not, so a CalledProcessError carries the stdout and no
\* stderr, and the output is the stdout whatever the exit status.
CapturedOutput(rc, stdout) ==
    IF rc = 0 THEN stdout
    ELSE stdout \o <<>>

\* Lines 63-65: only CalledProcessError is caught; a command that cannot
\* be started raises an OSError, which is not.
Raises(started, rc) == ~started

\* re.finditer(r'UPGRADED-PACKAGE: (.*),(.*),(.*)'): every marker, in order.
Upgraded(output) ==
    LET ups == SelectSeq(output, LAMBDA l : l.k = "UPGRADED-PACKAGE")
    IN  [i \in 1..Len(ups) |-> ups[i].v]

\* re.search(r'<kind>:\s*(\d+)'): the first marker of the kind, if any.
SearchCount(output, kind) ==
    LET ms == SelectSeq(output, LAMBDA l : l.k = kind)
    IN  IF ms = <<>> THEN None ELSE ms[1].v

\* What run_fix does for a tool that started or not, its exit status and
\* what it printed: raise, or return the three values.
RunFixOutcome(started, rc, stdout) ==
    IF Raises(started, rc)
    THEN [raised |-> TRUE, upgraded |-> <<>>, remaining |-> None,
          unfixable |-> None]
    ELSE LET output == CapturedOutput(rc, stdout)
         IN  [raised |-> FALSE,
              upgraded |-> Upgraded(output),
              remaining |-> SearchCount(output, "REMAINING-VULNS"),
              unfixable |-> SearchCount(output, "UNFIXABLE-VULNS")]

(* ------------------------------ actions -------------------------------- *)

\* Lines 19-28: the usage check and `git rev-parse`.
Startup ==
    /\ pc = "start"
    /\ \E argv_ok \in BOOLEAN, rc \in ExitCodes :
          pc' = IF argv_ok /\ rc = 0 THEN "for" ELSE "exit1"
    /\ UNCHANGED <<sidx, loopVars, cmd, workspace, bestVars, printed, env,
                   fx, last_call, rounds, validations, results>>

\* Line 89 starting from the blocklist of the best strategy so far.
InitialBlocklistOfBest == best_blocklist

\* Line 89.
InitialBlocklist == <<>>

\* Line 150 entering run_loop, lines 88-95.
RunLoopEnter ==
    /\ pc = "for"
    /\ sidx <= Len(PATCH_STRATEGIES)
    /\ applied_changes' = <<>>
    /\ blocklist_entries' = InitialBlocklist
    /\ n_patches' = 0
    /\ remaining_vulns' = None
    /\ total_unfixable' = None
    /\ rounds' = 0
    /\ validations' = 0
    /\ pc' = "reset"
    /\ UNCHANGED <<sidx, candidate_changes, unfixable_vulns, install_failed,
                   tests_failed, cmd, workspace, bestVars, printed, env, fx,
                   last_call, results>>

\* An uncaught exception ends the script: nothing of it is left but what
\* it did to the workspace.
Exited ==
    /\ pc' = "aborted"
    /\ applied_changes' = <<>>
    /\ blocklist_entries' = <<>>
    /\ n_patches' = 0
    /\ remaining_vulns' = None
    /\ total_unfixable' = None
    /\ candidate_changes' = <<>>
    /\ unfixable_vulns' = None
    /\ install_failed' = 0
    /\ tests_failed' = 0
    /\ cmd' = NoCmd
    /\ best_strategy' = NoStrategy
    /\ best_changes' = <<>>
    /\ best_blocklist' = <<>>
    /\ best_remaining' = SysMaxsize
    /\ best_unfixable' = None
    /\ env' = NewEnv(env.mode)

\* Line 41 with subprocess.call, which returns the exit status.
CallReturns(rc) == FALSE

\* run_fix, line 41: subprocess.check_call of `git checkout` raises
\* CalledProcessError on a non-zero exit, and nothing catches it.
CheckCallRaises(rc) == rc # 0

\* A round begins, lines 98 and 41.  What the round before bound at lines
\* 98, 109 and 110 is rebound before it is read again: the model forgets it
\* here.
RunFixReset ==
    /\ pc = "reset"
    /\ \E rc \in ExitCodes :
          /\ last_call' = IF rc = 0 THEN "reset_ok" ELSE "reset_failed"
          /\ workspace' = IF rc = 0 THEN <<>> ELSE workspace
          /\ IF CheckCallRaises(rc)
             THEN Exited
             ELSE /\ pc' = "fix"
                  /\ candidate_changes' = <<>>
                  /\ unfixable_vulns' = None
                  /\ install_failed' = 0
                  /\ tests_failed' = 0
                  /\ cmd' = NoCmd
                  /\ UNCHANGED <<applied_changes, blocklist_entries,
                                 n_patches, remaining_vulns, total_unfixable,
                                 bestVars, env>>
    /\ UNCHANGED <<sidx, printed, fx, rounds, validations, results>>

\* Line 103 comparing the lengths of the lists.
FixedPointByLength(candidates, applied) == Len(candidates) = Len(applied)

\* Line 103.
FixedPoint(candidates, applied) == candidates = applied

\* run_fix, lines 46-80, and run_loop's lines 98-104, for a tool that
\* exited with rc having printed stdout.
RunFix(rc, stdout) ==
    /\ pc = "fix"
    /\ cmd' = BuildCmd(n_patches, blocklist_entries, PATCH_STRATEGIES[sidx])
    /\ LET r == RunFixOutcome(TRUE, rc, stdout) IN
          /\ ~r.raised
          /\ candidate_changes' = r.upgraded
          /\ remaining_vulns' = r.remaining
          /\ unfixable_vulns' = r.unfixable
          /\ workspace' = Upgraded(stdout)
          /\ pc' = IF FixedPoint(r.upgraded, applied_changes)
                   THEN "return" ELSE "validate"
    /\ last_call' = "fix"
    /\ rounds' = Bump(rounds)
    /\ UNCHANGED <<sidx, applied_changes, blocklist_entries, n_patches,
                   total_unfixable, install_failed, tests_failed, bestVars,
                   printed, fx, validations, results>>

\* run_fix, line 64, for a tool that cannot be started.
RunFixCannotStart ==
    /\ pc = "fix"
    /\ RunFixOutcome(FALSE, 0, <<>>).raised
    /\ Exited
    /\ last_call' = "fix"
    /\ rounds' = Bump(rounds)
    /\ UNCHANGED <<sidx, workspace, printed, fx, validations, results>>

\* The model explores a round of a free or table fixer only within these
\* bounds.
WithinBounds ==
    /\ n_patches <= MaxN
    /\ Len(blocklist_entries) <= MaxBlock

\* The free fixer: any upgrades and counts the command line allows.
RunFixAny ==
    /\ pc = "fix"
    /\ env.mode = "free"
    /\ WithinBounds
    /\ LET c == BuildCmd(n_patches, blocklist_entries,
                         PATCH_STRATEGIES[sidx])
       IN  \E rc \in ExitCodes, stdout \in ToolOutputs(c.top, c.exclude) :
               RunFix(rc, stdout)
    /\ UNCHANGED env

\* The ranked fixer: its first call of a run_loop shows its ranking, and
\* every call upgrades the top of it; the counts are any.
RunFixRanked ==
    /\ pc = "fix"
    /\ env.mode = "ranked"
    /\ LET c == BuildCmd(n_patches, blocklist_entries,
                         PATCH_STRATEGIES[sidx])
       IN  \E r \in (IF env.ranking = {} THEN Rankings ELSE env.ranking),
              rc \in ExitCodes, rem \in RemCounts, unf \in Counts :
               /\ RunFix(rc,
                         ToolOutput(TopRanked(r, c.top, c.exclude), rem, unf))
               /\ env' = [env EXCEPT !.ranking = {r}]

\* The table fixer: a command line it has answered gets the same answer,
\* a new one any upgrades the command line allows, each package once; it
\* reports no counts.
RunFixTable ==
    /\ pc = "fix"
    /\ env.mode = "table"
    /\ WithinBounds
    /\ LET c == BuildCmd(n_patches, blocklist_entries,
                         PATCH_STRATEGIES[sidx])
           known == {a \in env.answers : a.cmd = c}
       IN  \E rc \in ExitCodes :
             IF known # {}
             THEN /\ \E a \in known :
                        RunFix(rc, ToolOutput(a.upgrades, None, None))
                  /\ UNCHANGED env
             ELSE \E ups \in {u \in ToolUpgrades(c.top, c.exclude) :
                                   NoRepeat(u)} :
                    /\ RunFix(rc, ToolOutput(ups, None, None))
                    /\ env' = [env EXCEPT !.answers =
                                  @ \cup {[cmd |-> c, upgrades |-> ups]}]

\* Lines 120-122 without the append: the blocklist as it was.
BlocklistedNothing(blocklist, candidates, applied) == blocklist

\* Lines 120-122 without the test of line 121.
BlocklistedAll(blocklist, candidates, applied) == blocklist \o candidates

\* Lines 120-122 assigning the new entries instead of appending them.
BlocklistedOnlyNew(blocklist, candidates, applied) ==
    SelectSeq(candidates, LAMBDA u : ~InList(u, applied))

\* Lines 120-122: the candidates not in applied_changes, appended in order.
Blocklisted(blocklist, candidates, applied) ==
    blocklist \o SelectSeq(candidates, LAMBDA u : ~InList(u, applied))

\* Line 112 with `and` for `or`.
ValidationFailedBoth(install, tests) == install # 0 /\ tests # 0

\* Line 112 looking at `npm ci` only.
ValidationFailedInstallOnly(install, tests) == install # 0

\* Line 112.
ValidationFailed(install, tests) == install # 0 \/ tests # 0

\* The branches of lines 112-130 on run_loop's locals
\* l = [applied, blocklist, n, total_unfixable, candidates, unfixable]:
\* the locals they leave, and where the loop goes.

\* Lines 113-116 falling through to the blocklisting of lines 120-122.
FailedProbeBlocklisting(l) ==
    [applied |-> l.applied,
     blocklist |-> Blocklisted(l.blocklist, l.candidates, l.applied),
     n |-> l.n + 1, total_unfixable |-> l.unfixable, pc |-> "reset"]

\* Lines 113-116: the attempt without --apply-top failed.
FailedProbe(l) ==
    [applied |-> l.applied, blocklist |-> l.blocklist, n |-> l.n + 1,
     total_unfixable |-> l.unfixable, pc |-> "reset"]

\* Lines 118-123 giving up the accepted upgrades with the failed ones.
FailedIncrementDroppingApplied(l) ==
    [applied |-> <<>>,
     blocklist |-> Blocklisted(l.blocklist, l.candidates, l.applied),
     n |-> l.n, total_unfixable |-> l.total_unfixable, pc |-> "reset"]

\* Lines 118-123 capturing the unfixable count as line 114 does.
FailedIncrementCapturing(l) ==
    [applied |-> l.applied,
     blocklist |-> Blocklisted(l.blocklist, l.candidates, l.applied),
     n |-> l.n, total_unfixable |-> l.unfixable, pc |-> "reset"]

\* Lines 118-123: an attempt with --apply-top failed.
FailedIncrement(l) ==
    [applied |-> l.applied,
     blocklist |-> Blocklisted(l.blocklist, l.candidates, l.applied),
     n |-> l.n, total_unfixable |-> l.total_unfixable, pc |-> "reset"]

\* Lines 125-127 without the break: lines 129-130 follow.
PassedProbeContinues(l) ==
    [applied |-> l.candidates, blocklist |-> l.blocklist, n |-> l.n + 1,
     total_unfixable |-> l.total_unfixable, pc |-> "reset"]

\* Lines 125-127: the attempt without --apply-top passed.
PassedProbe(l) ==
    [applied |-> l.candidates, blocklist |-> l.blocklist, n |-> l.n,
     total_unfixable |-> l.total_unfixable, pc |-> "return"]

\* Lines 129-130 without line 130.
PassedIncrementKeepsBudget(l) ==
    [applied |-> l.candidates, blocklist |-> l.blocklist, n |-> l.n,
     total_unfixable |-> l.total_unfixable, pc |-> "reset"]

\* Lines 129-130: an attempt with --apply-top passed.
PassedIncrement(l) ==
    [applied |-> l.candidates, blocklist |-> l.blocklist, n |-> l.n + 1,
     total_unfixable |-> l.total_unfixable, pc |-> "reset"]

\* Lines 112-130.
Branch(l, install, tests) ==
    IF ValidationFailed(install, tests)
    THEN IF l.n = 0 THEN FailedProbe(l) ELSE FailedIncrement(l)
    ELSE IF l.n = 0 THEN PassedProbe(l) ELSE PassedIncrement(l)

\* Lines 109-130: `npm ci` and `npm run test` exiting with install and tests,
\* and the branches on them.
Validate(install, tests) ==
    /\ pc = "validate"
    /\ install_failed' = install
    /\ tests_failed' = tests
    /\ LET b == Branch([applied |-> applied_changes,
                        blocklist |-> blocklist_entries,
                        n |-> n_patches,
                        total_unfixable |-> total_unfixable,
                        candidates |-> candidate_changes,
                        unfixable |-> unfixable_vulns], install, tests)
       IN  /\ applied_changes' = b.applied
           /\ blocklist_entries' = b.blocklist
           /\ n_patches' = b.n
           /\ total_unfixable' = b.total_unfixable
           /\ pc' = b.pc
    /\ last_call' = "validate"
    /\ validations' = Bump(validations)
    /\ UNCHANGED <<sidx, remaining_vulns, candidate_changes, unfixable_vulns,
                   cmd, workspace, bestVars, printed, fx, rounds, results>>

\* npm exits with any status.
ValidateAny ==
    /\ \E install \in ExitCodes, tests \in ExitCodes :
          Validate(install, tests)
    /\ UNCHANGED env

\* The same packages in the workspace get the same verdict every time.
ValidateTable ==
    /\ pc = "validate"
    /\ LET known == {v \in env.verdicts : v.pkgs = PkgSet(candidate_changes)}
       IN  IF known # {}
           THEN /\ \E v \in known : Validate(v.install, v.tests)
                /\ UNCHANGED env
           ELSE \E install \in ExitCodes, tests \in ExitCodes :
                  /\ Validate(install, tests)
                  /\ env' = [env EXCEPT !.verdicts =
                                @ \cup {[pkgs |-> PkgSet(candidate_changes),
                                         install |-> install,
                                         tests |-> tests]}]

\* Lines 154-158 comparing with <=.
ImprovesOrTies(changes, remaining, best) ==
    /\ TruthyList(changes)
    /\ remaining # None
    /\ remaining <= best

\* Lines 154-158 without line 155.
ImprovesWithoutChanges(changes, remaining, best) ==
    /\ remaining # None
    /\ remaining < best

\* Lines 154-158.
Improves(changes, remaining, best) ==
    /\ TruthyList(changes)
    /\ remaining # None
    /\ remaining < best

\* Line 141 and the for body, lines 151-163.  run_loop's frame, and its
\* locals with it, is gone once it has returned, and the next run_loop
\* meets the fixer and the validator anew.
Return ==
    /\ pc = "return"
    /\ results' = Append(results,
                         [strategy |-> PATCH_STRATEGIES[sidx],
                          changes |-> applied_changes,
                          remaining |-> remaining_vulns,
                          unfixable |-> total_unfixable,
                          blocklist |-> blocklist_entries])
    /\ IF Improves(applied_changes, remaining_vulns, best_remaining)
       THEN /\ best_strategy' = PATCH_STRATEGIES[sidx]
            /\ best_changes' = applied_changes
            /\ best_blocklist' = blocklist_entries
            /\ best_remaining' = remaining_vulns
            /\ best_unfixable' = total_unfixable
       ELSE UNCHANGED bestVars
    /\ applied_changes' = <<>>
    /\ blocklist_entries' = <<>>
    /\ n_patches' = 0
    /\ remaining_vulns' = None
    /\ total_unfixable' = None
    /\ candidate_changes' = <<>>
    /\ unfixable_vulns' = None
    /\ install_failed' = 0
    /\ tests_failed' = 0
    /\ cmd' = NoCmd
    /\ env' = NewEnv(env.mode)
    /\ rounds' = 0
    /\ validations' = 0
    /\ sidx' = sidx + 1
    /\ pc' = "for"
    /\ UNCHANGED <<workspace, printed, fx, last_call>>

\* Line 178: the unfixable line is printed when best_unfixable is truthy.
PrintsUnfixable(unfixable) == TruthyInt(unfixable)

\* Lines 165-179 preceded by a re-application of the best strategy's
\* upgrades to the workspace.
ReportRestoringBest ==
    /\ pc = "for"
    /\ sidx > Len(PATCH_STRATEGIES)
    /\ printed' = [done |-> TRUE,
                   strategy |-> best_strategy,
                   changes |-> best_changes,
                   blocklist |-> best_blocklist,
                   remaining |-> best_remaining,
                   unfixable_shown |-> PrintsUnfixable(best_unfixable),
                   unfixable |-> best_unfixable]
    /\ workspace' = best_changes
    /\ pc' = "done"
    /\ UNCHANGED <<sidx, loopVars, cmd, bestVars, env, fx, last_call, rounds,
                   validations, results>>

\* Lines 165-179.
Report ==
    /\ pc = "for"
    /\ sidx > Len(PATCH_STRATEGIES)
    /\ printed' = [done |-> TRUE,
                   strategy |-> best_strategy,
                   changes |-> best_changes,
                   blocklist |-> best_blocklist,
                   remaining |-> best_remaining,
                   unfixable_shown |-> PrintsUnfixable(best_unfixable),
                   unfixable |-> best_unfixable]
    /\ pc' = "done"
    /\ UNCHANGED <<sidx, loopVars, cmd, workspace, bestVars, env, fx,
                   last_call, rounds, validations, results>>

(* --------------------------- specifications ---------------------------- *)

\* The script with a ranked fixer.
Next ==
    \/ Startup
    \/ RunLoopEnter
    \/ RunFixReset
    \/ RunFixRanked
    \/ RunFixCannotStart
    \/ ValidateAny
    \/ Return
    \/ Report

Spec == Init /\ [][Next]_vars

\* The first run_loop with a free fixer.
InitLoop ==
    /\ InitScript("free")
    /\ fx = NoFx

RunLoopFirst ==
    /\ sidx = 1
    /\ RunLoopEnter

NextLoop ==
    \/ Startup
    \/ RunLoopFirst
    \/ RunFixReset
    \/ RunFixAny
    \/ RunFixCannotStart
    \/ ValidateAny
    \/ Return

SpecLoop == InitLoop /\ [][NextLoop]_vars

\* The first run_loop with a fixer and a validator that are functions of
\* their input, the fixer ranked or not.  The script is sequential and
\* every external command returns: it takes its next step whenever it has
\* one.
InitDet ==
    /\ \E mode \in {"ranked", "table"} : InitScript(mode)
    /\ fx = NoFx

NextDet ==
    \/ Startup
    \/ RunLoopFirst
    \/ RunFixReset
    \/ RunFixRanked
    \/ RunFixTable
    \/ RunFixCannotStart
    \/ ValidateTable
    \/ Return

SpecDet == InitDet /\ [][NextDet]_vars /\ WF_vars(NextDet)

\* run_fix on its own, for any tool behaviour.
InitFix ==
    /\ InitScript("free")
    /\ fx \in [started : BOOLEAN, rc : ExitCodes, stdout : Outputs,
               ret : {<<>>}]

RunFixCall ==
    /\ fx.ret = <<>>
    /\ fx' = [fx EXCEPT !.ret = <<RunFixOutcome(fx.started, fx.rc,
                                                fx.stdout)>>]
    /\ UNCHANGED <<pc, sidx, loopVars, cmd, workspace, bestVars, printed,
                   env, last_call, rounds, validations, results>>

NextFix == RunFixCall

SpecFix == InitFix /\ [][NextFix]_vars

(* ------------------------------ properties ----------------------------- *)

\* run_loop is over: it returned, or the script ended before or within it.
Terminated == Len(results) >= 1 \/ pc \in {"aborted", "exit1"}

\* C1 as stated: with a fixer that is a function of its command line
\* (strategy, blocklist, n), respects --apply-top and the exclusions, and a
\* validator that is a function of the upgraded packages, run_loop
\* eventually terminates.  Both fixers of SpecDet are such functions.
C1_TerminatesForAnyFunction == <>Terminated

\* C1: when the fixer moreover upgrades the top n of one fixed ranking of
\* the packages it may upgrade (all of them without --apply-top), every
\* run_loop eventually terminates.
C1_TerminatesForRankedFixer == (env.mode = "ranked") => <>Terminated

\* A ranked run_loop that went through growing batches and a blocklisting
\* and reached its fixed point.
C1_Witness ==
    /\ env.mode = "ranked"
    /\ pc = "return"
    /\ n_patches >= 2
    /\ blocklist_entries # <<>>
    /\ applied_changes # <<>>

\* The script is inside run_loop.
InLoop == pc \in {"reset", "fix", "validate", "return"}

\* l is a prefix of m.
IsPrefix(l, m) == Len(l) <= Len(m) /\ \A i \in 1..Len(l) : m[i] = l[i]

\* C2: within one run_loop no step removes an entry from the blocklist:
\* every step leaves the entries it found, in their places, so the blocklist
\* of an earlier round is contained in that of every later round.
C2_BlocklistMonotone ==
    [][(InLoop /\ InLoop') =>
          /\ IsPrefix(blocklist_entries, blocklist_entries')
          /\ PkgSet(blocklist_entries) \subseteq PkgSet(blocklist_entries')]_vars

\* A second blocklisting has just added to the first.
C2_Witness ==
    /\ pc = "reset"
    /\ last_call = "validate"
    /\ n_patches = 1
    /\ Len(blocklist_entries) >= 2
    /\ blocklist_entries[1] # blocklist_entries[2]

\* C3: applied_changes changes only to the empty list (a run_loop begins or
\* is over) or, in the round's validation step, to the candidates of that
\* round, which are in the workspace and for which `npm ci` and
\* `npm run test` both exited with zero; a round that skips or fails the
\* validation leaves it alone.
C3_AcceptedWasValidated ==
    [][applied_changes' # applied_changes =>
          \/ applied_changes' = <<>>
          \/ /\ pc = "validate"
             /\ last_call = "fix"
             /\ last_call' = "validate"
             /\ install_failed' = 0
             /\ tests_failed' = 0
             /\ applied_changes' = candidate_changes
             /\ workspace = candidate_changes]_vars

\* Candidates accepted in a round with --apply-top, after another
\* acceptance.
C3_Witness ==
    /\ pc = "reset"
    /\ last_call = "validate"
    /\ applied_changes # <<>>
    /\ n_patches >= 3

\* A returned run_loop qualifies for BestResult: applied non-empty and a
\* known remaining count.
Qualifies(r) == r.changes # <<>> /\ r.remaining # None

\* Every strategy has run.
AllRun == Len(results) = Len(PATCH_STRATEGIES) /\ pc \in {"for", "done"}

\* results[i] is the first to attain the least remaining count among the
\* qualifying ones.
FirstMinimum(i) ==
    /\ Qualifies(results[i])
    /\ \A j \in 1..Len(results) :
          Qualifies(results[j]) =>
             /\ results[i].remaining <= results[j].remaining
             /\ j < i => results[j].remaining > results[i].remaining

\* BestResult is what results[i] returned.
BestIs(i) ==
    /\ best_strategy = results[i].strategy
    /\ best_changes = results[i].changes
    /\ best_blocklist = results[i].blocklist
    /\ best_remaining = results[i].remaining
    /\ best_unfixable = results[i].unfixable

\* C4 as stated: once every strategy has run, BestResult is the outcome
\* (strategy, applied, blocklist, remaining, unfixable) of the first
\* strategy attaining the least remaining count among those with non-empty
\* applied and known remaining; a later tie does not replace it.
C4_FirstMinimumWins ==
    AllRun => \A i \in 1..Len(results) : FirstMinimum(i) => BestIs(i)

\* Below the ceiling of line 147 the selection is the first minimum: the
\* same, for the strategies whose remaining count is less than sys.maxsize
\* (it fails once line 157 compares with <=, ImprovesOrTies).
FirstMinimumWinsBelowCeiling ==
    (AllRun /\ \A j \in 1..Len(results) :
                  Qualifies(results[j]) => results[j].remaining < SysMaxsize)
       => \A i \in 1..Len(results) : FirstMinimum(i) => BestIs(i)

\* BestResult before any strategy won.
BestIsInitial ==
    /\ best_strategy = NoStrategy
    /\ best_changes = <<>>
    /\ best_blocklist = <<>>
    /\ best_remaining = SysMaxsize
    /\ best_unfixable = None

\* C5: a strategy that returned an empty applied list or no remaining
\* count is never the best strategy, wherever it comes in the order, and
\* while no returned strategy qualifies BestResult is as initialised.
C5_NonQualifyingNeverWins ==
    /\ \A i \in 1..Len(results) :
          ~Qualifies(results[i]) => best_strategy # results[i].strategy
    /\ (\A i \in 1..Len(results) : ~Qualifies(results[i])) => BestIsInitial

\* The first strategy returned no upgrade and the lower remaining count,
\* the second qualifies, and the second is the best.
C5_Witness ==
    /\ pc = "done"
    /\ results[1].changes = <<>>
    /\ results[1].remaining = 0
    /\ Qualifies(results[2])
    /\ results[2].remaining = 1
    /\ best_strategy = results[2].strategy

\* run_fix was called alone with a tool that started and exited non-zero.
FailedCall == fx.ret # <<>> /\ fx.started /\ fx.rc # 0

\* C6 as stated: when the tool exits non-zero, run_fix raises nothing and
\* returns an empty list and no counts, whatever the tool printed.
C6_FailureGivesNothing ==
    FailedCall =>
       /\ ~fx.ret[1].raised
       /\ fx.ret[1].upgraded = <<>>
       /\ fx.ret[1].remaining = None
       /\ fx.ret[1].unfixable = None

\* The places of the markers of a kind in an output.
Marks(output, kind) == {i \in 1..Len(output) : output[i].k = kind}

\* count is what the first marker of a kind in output reports, None when
\* output has none.
IsFirstCount(count, output, kind) ==
    IF Marks(output, kind) = {} THEN count = None
    ELSE \E i \in Marks(output, kind) :
            /\ \A j \in Marks(output, kind) : i <= j
            /\ count = output[i].v

\* C6: when the tool exits non-zero, run_fix raises nothing and returns
\* what the tool printed before it failed: the package of every
\* UPGRADED-PACKAGE marker, in order, and the counts of the first
\* REMAINING-VULNS and UNFIXABLE-VULNS markers; the list is empty, or a
\* count absent, exactly when the output has no such marker.
C6_FailureGivesWhatWasPrinted ==
    FailedCall =>
       LET ups == Marks(fx.stdout, "UPGRADED-PACKAGE")
           ret == fx.ret[1]
       IN  /\ ~ret.raised
           /\ Len(ret.upgraded) = Cardinality(ups)
           /\ \A i \in ups :
                 ret.upgraded[Cardinality({j \in ups : j <= i})]
                    = fx.stdout[i].v
           /\ IsFirstCount(ret.remaining, fx.stdout, "REMAINING-VULNS")
           /\ IsFirstCount(ret.unfixable, fx.stdout, "UNFIXABLE-VULNS")

\* A failed tool had printed an upgrade and both counts, and run_fix
\* returned them.
C6_Witness ==
    /\ FailedCall
    /\ fx.ret[1].upgraded # <<>>
    /\ fx.ret[1].remaining # None
    /\ fx.ret[1].unfixable # None

\* C7: `osv-scanner fix` runs only right after a `git checkout` of the
\* same round that exited with zero and left the workspace at its
\* baseline, and npm runs only right after that round's `osv-scanner fix`;
\* once a `git checkout` has failed the script is over: no further
\* command, no further run_loop, no report.
C7_ResetFirstAndFatal ==
    /\ [][(last_call' = "fix" /\ pc = "fix") =>
             last_call = "reset_ok" /\ workspace = <<>>]_vars
    /\ [][(last_call' = "validate" /\ pc = "validate") =>
             last_call = "fix"]_vars
    /\ [](last_call = "reset_failed" => pc = "aborted" /\ ~printed.done)
    /\ [][last_call = "reset_failed" =>
             UNCHANGED <<last_call, rounds, validations, results, sidx,
                         printed, workspace>>]_vars

\* The `git checkout` of a round of the second strategy failed, after
\* rounds that ran.
C7_Witness ==
    /\ last_call = "reset_failed"
    /\ pc = "aborted"
    /\ Len(results) = 1
    /\ rounds >= 1
    /\ validations >= 1

\* The step in which npm ran on the candidates of the attempt without
\* --apply-top and both commands exited with zero.
ProbePasses ==
    /\ pc = "validate"
    /\ n_patches = 0
    /\ last_call' = "validate"
    /\ install_failed' = 0
    /\ tests_failed' = 0

\* What run_loop returns: the entry the step adds to results.
Returns(changes, remaining, unfixable, blocklist) ==
    /\ Len(results') = Len(results) + 1
    /\ results'[Len(results')].changes = changes
    /\ results'[Len(results')].remaining = remaining
    /\ results'[Len(results')].unfixable = unfixable
    /\ results'[Len(results')].blocklist = blocklist

\* C8: when the first `osv-scanner fix`, without --apply-top, upgrades a
\* non-empty list C and npm passes, run_loop leaves the loop in that round,
\* after one `osv-scanner fix` and one validation, with applied = C, an
\* empty blocklist, the remaining count of that `osv-scanner fix` and no
\* unfixable count, and returns exactly these.
C8_ProbeSuccessReturns ==
    /\ [][ProbePasses =>
             /\ candidate_changes # <<>>
             /\ pc' = "return"
             /\ rounds' = 1
             /\ validations' = 1
             /\ applied_changes' = candidate_changes
             /\ blocklist_entries' = <<>>
             /\ remaining_vulns' = remaining_vulns
             /\ total_unfixable' = None
             /\ n_patches' = 0]_vars
    /\ [][(pc = "return" /\ pc' # pc /\ n_patches = 0
                /\ applied_changes # <<>>) =>
             /\ rounds = 1
             /\ validations = 1
             /\ Returns(candidate_changes, remaining_vulns, None, <<>>)]_vars

\* run_loop is about to return after its attempt without --apply-top
\* passed, with a remaining count and an unfixable count reported.
C8_Witness ==
    /\ pc = "return"
    /\ n_patches = 0
    /\ validations = 1
    /\ applied_changes # <<>>
    /\ applied_changes = candidate_changes
    /\ remaining_vulns # None
    /\ unfixable_vulns # None

\* C9: total_unfixable is unset while the loop has not gone past its
\* attempt without --apply-top; it is set, to the unfixable count that
\* attempt reported, in the step in which the validation of that attempt
\* fails; no later round changes it; and run_loop returns it.
C9_UnfixableOfFailedProbe ==
    /\ []((InLoop /\ n_patches = 0) => total_unfixable = None)
    /\ [][(pc = "validate" /\ n_patches = 0 /\ n_patches' # 0) =>
             total_unfixable' = unfixable_vulns]_vars
    /\ [][(InLoop /\ InLoop' /\ n_patches # 0) =>
             total_unfixable' = total_unfixable]_vars
    /\ [][(pc = "return" /\ pc' # pc) =>
             Returns(applied_changes, remaining_vulns, total_unfixable,
                     blocklist_entries)]_vars

\* run_loop is about to return the unfixable count of the failed first
\* attempt, its last round having reported another.
C9_Witness ==
    /\ pc = "return"
    /\ n_patches >= 1
    /\ total_unfixable = 1
    /\ unfixable_vulns = 0

\* C10: a run_loop starts with applied = [], blocklist = [], n = 0 and no
\* counts, whatever the strategies before it returned; its first
\* `osv-scanner fix` excludes no package and every later one exactly the
\* packages this run_loop has blocklisted; and BestResult changes only
\* when a run_loop returns with non-empty applied and a known remaining
\* count below the best, to what that run_loop returns.
C10_FreshRunState ==
    /\ []((pc = "reset" /\ rounds = 0) =>
             /\ applied_changes = <<>>
             /\ blocklist_entries = <<>>
             /\ n_patches = 0
             /\ remaining_vulns = None
             /\ total_unfixable = None)
    /\ []((pc \in {"validate", "return"}) =>
             /\ cmd.exclude = blocklist_entries
             /\ cmd.strategy = PATCH_STRATEGIES[sidx]
             /\ rounds = 1 => cmd.exclude = <<>>)
    /\ [][(<<best_strategy, best_changes, best_blocklist, best_remaining,
             best_unfixable>>' # <<best_strategy, best_changes,
             best_blocklist, best_remaining, best_unfixable>>
           /\ pc' # "aborted") =>
             /\ pc = "return"
             /\ applied_changes # <<>>
             /\ remaining_vulns # None
             /\ remaining_vulns < best_remaining
             /\ best_strategy' = PATCH_STRATEGIES[sidx]
             /\ best_changes' = applied_changes
             /\ best_blocklist' = blocklist_entries
             /\ best_remaining' = remaining_vulns
             /\ best_unfixable' = total_unfixable]_vars

\* The second strategy tries, with nothing excluded, a package the best
\* strategy so far has blocklisted.
C10_Witness ==
    /\ pc = "validate"
    /\ sidx = 2
    /\ best_blocklist # <<>>
    /\ cmd.exclude = <<>>
    /\ InList(best_blocklist[1], candidate_changes)

\* C11 as stated: the report prints the unfixable count whenever BestResult
\* has one, any integer and 0 too, and omits it only when it is unset.
C11_UnfixableReportedWhenKnown ==
    printed.done => (printed.unfixable_shown <=> printed.unfixable # None)

\* The step in which npm ran on the round's candidates.
Validates == pc = "validate" /\ last_call' = "validate"

\* The round's candidates that are not in applied_changes, in order.
NewlyTried == SelectSeq(candidate_changes,
                        LAMBDA u : ~InList(u, applied_changes))

\* C12: a validation passes, and the candidates are accepted, exactly when
\* `npm ci` and `npm run test` both exit with zero; when either or both
\* exit non-zero the failure branch is taken (nothing is accepted, the
\* loop goes on to another round) and the script does not end.
C12_PassIffBothZero ==
    [][Validates =>
          /\ pc' # "aborted"
          /\ (install_failed' = 0 /\ tests_failed' = 0)
                <=> applied_changes' = candidate_changes
          /\ (install_failed' # 0 \/ tests_failed' # 0)
                <=> (/\ applied_changes' = applied_changes
                     /\ pc' = "reset"
                     /\ \/ n_patches = 0 /\ n_patches' = 1
                        \/ /\ n_patches # 0
                           /\ n_patches' = n_patches
                           /\ blocklist_entries'
                                 = blocklist_entries \o NewlyTried)]_vars

\* `npm ci` passed and `npm run test` failed, and the loop went on without
\* accepting.
C12_Witness ==
    /\ pc = "reset"
    /\ last_call = "validate"
    /\ install_failed = 0
    /\ tests_failed # 0
    /\ applied_changes # candidate_changes

\* The validation of the step failed, or passed.
FailsNow == install_failed' # 0 \/ tests_failed' # 0
PassesNow == install_failed' = 0 /\ tests_failed' = 0

\* C13: when the validation of a round with --apply-top (n >= 1) fails,
\* the blocklist becomes the old blocklist followed by exactly the
\* candidates that are not in applied, so that no package of applied is
\* blocklisted; n and applied stay as they are, and the loop goes on to
\* another round.
C13_IncrementFailure ==
    [][(Validates /\ n_patches >= 1 /\ FailsNow) =>
          /\ blocklist_entries' = blocklist_entries \o NewlyTried
          /\ \A i \in Len(blocklist_entries) + 1 .. Len(blocklist_entries') :
                /\ InList(blocklist_entries'[i], candidate_changes)
                /\ ~InList(blocklist_entries'[i], applied_changes)
          /\ \A i \in 1..Len(candidate_changes) :
                InList(candidate_changes[i], applied_changes)
                   \/ InList(candidate_changes[i], blocklist_entries')
          /\ n_patches' = n_patches
          /\ applied_changes' = applied_changes
          /\ pc' = "reset"]_vars

\* A failed round with --apply-top 2 whose candidates held an accepted
\* package and a new one: only the new one was blocklisted.
C13_Witness ==
    /\ pc = "reset"
    /\ last_call = "validate"
    /\ tests_failed # 0
    /\ n_patches = 2
    /\ Len(candidate_changes) = 2
    /\ InList(candidate_changes[1], applied_changes)
    /\ ~InList(candidate_changes[2], applied_changes)
    /\ blocklist_entries = <<candidate_changes[2]>>

\* C14: when the validation of the attempt without --apply-top (n = 0)
\* fails, the blocklist and applied stay empty, n becomes 1, and the loop
\* goes on to another round.
C14_ProbeFailure ==
    [][(Validates /\ n_patches = 0 /\ FailsNow) =>
          /\ blocklist_entries = <<>>
          /\ blocklist_entries' = <<>>
          /\ applied_changes = <<>>
          /\ applied_changes' = <<>>
          /\ n_patches' = 1
          /\ pc' = "reset"]_vars

\* The attempt without --apply-top has just failed on two packages.
C14_Witness ==
    /\ pc = "reset"
    /\ last_call = "validate"
    /\ install_failed # 0
    /\ n_patches = 1
    /\ validations = 1
    /\ Len(candidate_changes) = 2
    /\ blocklist_entries = <<>>

\* C15: when the validation of a round with --apply-top (n >= 1) passes,
\* applied becomes the round's candidates, n grows by exactly one, the
\* blocklist stays as it is, and the loop goes on to another round.
C15_IncrementAcceptance ==
    [][(Validates /\ n_patches >= 1 /\ PassesNow) =>
          /\ applied_changes' = candidate_changes
          /\ n_patches' = n_patches + 1
          /\ blocklist_entries' = blocklist_entries
          /\ pc' = "reset"]_vars

\* Candidates accepted in a round with --apply-top while a package is
\* blocklisted.
C15_Witness ==
    /\ pc = "reset"
    /\ last_call = "validate"
    /\ install_failed = 0
    /\ tests_failed = 0
    /\ n_patches = 2
    /\ applied_changes = candidate_changes
    /\ applied_changes # <<>>
    /\ blocklist_entries # <<>>

Acquires == pc = "fix" /\ last_call' = "fix"

\* C17: whenever run_loop returns, the upgrades the last `osv-scanner fix`
\* left in the workspace are the returned applied list, and the returned
\* remaining count is the one that call reported: the loop is left either
\* by that call itself (fixed point) or by the validation that accepted
\* its candidates, within the run_loop only a call of `osv-scanner fix`
\* changes the remaining count, and only it and the `git checkout` before
\* it change the workspace.
C17_ReturnMatchesWorkspace ==
    /\ [](pc = "return" =>
             /\ workspace = applied_changes
             /\ candidate_changes = applied_changes
             /\ last_call \in {"fix", "validate"})
    /\ [][(pc' = "return" /\ pc # "return") =>
             \/ Acquires
             \/ /\ Validates
                /\ last_call = "fix"
                /\ workspace' = workspace
                /\ remaining_vulns' = remaining_vulns]_vars
    /\ [][(InLoop /\ InLoop' /\ remaining_vulns' # remaining_vulns) =>
             Acquires]_vars
    /\ [][(InLoop /\ InLoop' /\ workspace' # workspace) =>
             Acquires \/ (pc = "reset" /\ workspace' = <<>>)]_vars
    /\ [][(pc = "return" /\ pc' # pc) =>
             /\ workspace' = workspace
             /\ Returns(workspace, remaining_vulns, total_unfixable,
                        blocklist_entries)]_vars

\* run_loop is about to return at its fixed point, after rounds that
\* accepted and rejected candidates.
C17_Witness ==
    /\ pc = "return"
    /\ last_call = "fix"
    /\ rounds >= 2
    /\ applied_changes # <<>>
    /\ blocklist_entries # <<>>
    /\ workspace = applied_changes
    /\ remaining_vulns # None

\* No package is both blocklisted and applied.
Disjoint == PkgSet(blocklist_entries) \cap PkgSet(applied_changes) = {}

\* C18 as stated: with a fixer that never upgrades an excluded package, in
\* every state of a run_loop no package is both in the blocklist and in
\* applied, and the blocklist names no package twice.
C18_DisjointAndNoDuplicates ==
    InLoop => Disjoint /\ NoRepeat(blocklist_entries)

\* C18: with a fixer that never upgrades an excluded package, in every
\* state of a run_loop no package is both in the blocklist and in applied;
\* and a round whose candidates name no package twice adds no duplicate
\* to the blocklist, so that the blocklist names no package twice as long
\* as no candidate list does.
C18_DisjointAndNoNewDuplicates ==
    /\ [](InLoop => Disjoint)
    /\ [][(InLoop /\ InLoop' /\ NoRepeat(candidate_changes)
               /\ NoRepeat(blocklist_entries)) =>
             NoRepeat(blocklist_entries')]_vars

\* A run_loop at its fixed point with packages accepted and a package
\* blocklisted in a round whose candidates held accepted ones too.
C18_Witness ==
    /\ pc = "return"
    /\ rounds >= 2
    /\ Len(applied_changes) >= 1
    /\ Len(blocklist_entries) >= 1
    /\ NoRepeat(blocklist_entries)
    /\ NoRepeat(applied_changes)
    /\ cmd.exclude = blocklist_entries
    /\ cmd.top = 2

\* C19: once every strategy has run, and after the report, the upgrades in
\* the workspace are those the last `osv-scanner fix` of the last strategy
\* of PATCH_STRATEGIES left, which are the applied list that strategy
\* returned; after the last run_loop no command runs and the workspace is
\* not touched, whichever strategy is the best.
C19_WorkspaceOfLastStrategy ==
    /\ [](AllRun =>
             /\ results[Len(results)].strategy
                   = PATCH_STRATEGIES[Len(PATCH_STRATEGIES)]
             /\ workspace = results[Len(results)].changes)
    /\ [][(pc = "for" /\ sidx > Len(PATCH_STRATEGIES)) =>
             /\ workspace' = workspace
             /\ last_call' = last_call]_vars

\* The report is printed, the first strategy is the best, and the
\* workspace holds other upgrades than the best strategy's.
C19_Witness ==
    /\ pc = "done"
    /\ printed.done
    /\ best_strategy = PATCH_STRATEGIES[1]
    /\ workspace # best_changes
    /\ workspace = results[2].changes

====
